---- MODULE Spec2Model ----
(***************************************************************************)
(* Verification model of robust-semantic-agent: the particle belief        *)
(* (core/belief.py), credal-set expansion (core/credal.py), the CBF-QP     *)
(* safety filter (safety/cbf.py), the agent step (policy/agent.py) and the *)
(* forbidden-circle environment (envs/forbidden_circle/env.py).            *)
(*                                                                         *)
(* Number representation.  The program works on floating-point reals; the  *)
(* model works on exact rationals built from integers.                     *)
(*  - A belief's weights exp(log_weights[i]) are the rationals w[i]/D.     *)
(*    _normalize_log_weights makes D the sum of the numerators; a belief   *)
(*    is normalized iff Sum(w) = D.  Numerators are kept in lowest terms.  *)
(*  - Logarithms are counted in bits (units of ln 2).  Particles and       *)
(*    observations lie on a grid of pitch GridPitch = sigma*sqrt(2 ln 2),  *)
(*    so that the Gaussian log-likelihood of an observation at squared     *)
(*    grid distance d2 is -d2 bits plus a constant that normalization      *)
(*    removes.  A source logit is an integer number of bits lam            *)
(*    (reliability r_s = 2^lam / (1 + 2^lam); lam = 2 is r_s = 0.8).       *)
(***************************************************************************)
EXTENDS Integers, Sequences, FiniteSets, TLC

VARIABLES belief, lastOp, credalOut, config, env, info

beliefVars == <<belief, lastOp, credalOut, config>>
vars == <<belief, lastOp, credalOut, config, env, info>>

(***************************************************************************)
(* Bounds of the model                                                     *)
(***************************************************************************)
NParticles == 3
MaxWeight == 8
UDen == 2
\* grid coordinates the particles range over
GridCoords == -1..1

(***************************************************************************)
(* Arithmetic helpers                                                      *)
(***************************************************************************)
RECURSIVE Pow2(_)
Pow2(n) == IF n <= 0 THEN 1 ELSE 2 * Pow2(n - 1)

RECURSIVE GCD(_, _)
GCD(a, b) == IF b = 0 THEN a ELSE GCD(b, a % b)

RECURSIVE SeqSum(_)
SeqSum(s) == IF s = <<>> THEN 0 ELSE Head(s) + SeqSum(Tail(s))

RECURSIVE SeqGCD(_)
SeqGCD(s) == IF s = <<>> THEN 0 ELSE GCD(Head(s), SeqGCD(Tail(s)))

SeqMax(s) == CHOOSE m \in {s[i] : i \in DOMAIN s} : \A i \in DOMAIN s : s[i] <= m
SeqMin(s) == CHOOSE m \in {s[i] : i \in DOMAIN s} : \A i \in DOMAIN s : m <= s[i]

Abs(x) == IF x < 0 THEN -x ELSE x

(***************************************************************************)
(* Belief (core/belief.py)                                                 *)
(***************************************************************************)
\* Belief.__init__: N particles, uniform weights exp(-log N) = 1/N, no credal set
NewBelief(parts) ==
  [particles |-> parts,
   w |-> [i \in DOMAIN parts |-> 1],
   D |-> Len(parts),
   hasCredal |-> FALSE,
   credal |-> <<>>]

\* log_weights += log_mult, for a log_mult given in bits; the numerators are
\* scaled by the common factor 2^(-min log_mult), which normalization removes
AddLogAssign(w, logMult) ==
  LET m == SeqMin(logMult)
  IN  [i \in DOMAIN w |-> Pow2(logMult[i] - m)]

AddLog(w, logMult) ==
  LET m == SeqMin(logMult)
  IN  [i \in DOMAIN w |-> w[i] * Pow2(logMult[i] - m)]

\* Belief._normalize_log_weights: subtract the log-sum-exp, i.e. divide the
\* weights by their sum
NoNormalize(raw, oldD) ==
  [w |-> raw, D |-> oldD]

NormalizeLogWeights(raw, oldD) ==
  LET g == SeqGCD(raw)
      r == [i \in DOMAIN raw |-> raw[i] \div g]
  IN  [w |-> r, D |-> SeqSum(r)]

\* squared grid distance: minus the sum over the dimensions of the Gaussian
\* log-density of o at particle p, in bits, up to the normalization constant
Dist2(o, p) == (o[1] - p[1]) * (o[1] - p[1]) + (o[2] - p[2]) * (o[2] - p[2])

\* an update that rebuilds the belief without its credal set
UpdateObsFresh(b, o) ==
  LET logLik == [i \in DOMAIN b.w |-> 0 - Dist2(o, b.particles[i])]
      n == NormalizeLogWeights(AddLog(b.w, logLik), b.D)
  IN  [b EXCEPT !.w = n.w, !.D = n.D, !.hasCredal = FALSE, !.credal = <<>>]

\* Belief.update_obs
UpdateObs(b, o) ==
  LET logLik == [i \in DOMAIN b.w |-> 0 - Dist2(o, b.particles[i])]
      n == NormalizeLogWeights(AddLog(b.w, logLik), b.D)
  IN  [b EXCEPT !.w = n.w, !.D = n.D]

\* Message.A_c: the claim predicates used by the tests and the gossip source
Preds == {"x_gt_0", "y_gt_0"}
A_c(pred, p) == IF pred = "x_gt_0" THEN p[1] > 0 ELSE p[2] > 0

\* credal.py create_credal_from_logit_interval: the logit of posterior k
\* (k = 0..K-1); the model calls it only where the division is exact
LogitValueOverK(lam, k, K) ==
  IF K = 1 THEN 0 ELSE (0 - lam) + ((2 * lam * k) \div K)

LogitValue(lam, k, K) ==
  IF K = 1 THEN 0 ELSE (0 - lam) + ((2 * lam * k) \div (K - 1))

\* credal.py create_credal_from_logit_interval: posterior k
CredalPosterior(base, pred, lam, k, K) ==
  LET lv == LogitValue(lam, k, K)
      logMult == [i \in DOMAIN base.w |->
                    IF A_c(pred, base.particles[i]) THEN lv ELSE 0 - lv]
      n == NormalizeLogWeights(AddLog(base.w, logMult), base.D)
  IN  [particles |-> base.particles, w |-> n.w, D |-> n.D,
       hasCredal |-> FALSE, credal |-> <<>>]

\* credal.py create_credal_from_logit_interval: the CredalSet returned
\* (posterior k at index k + 1) and the base belief after the call; every
\* posterior works on copies of the base arrays, so the base is as before
CreateCredalFromLogitInterval(base, pred, lam, K) ==
  [posteriors |-> [j \in 1..K |-> CredalPosterior(base, pred, lam, j - 1, K)],
   base |-> base]

\* the K that Belief.apply_message passes (belief.py line 125)
HardCodedK == 5

\* Belief.apply_message: the log-multiplier of a particle on which the
\* claim holds (sat) or not, by Belnap value
MessageLogMultNoSwap(value, sat, lam) ==
  IF value = "TRUE" THEN (IF sat THEN lam ELSE 0 - lam)
  ELSE IF value = "FALSE" THEN (IF sat THEN lam ELSE 0 - lam)
  ELSE 0

MessageLogMult(value, sat, lam) ==
  IF value = "TRUE" THEN (IF sat THEN lam ELSE 0 - lam)
  ELSE IF value = "FALSE" THEN (IF sat THEN 0 - lam ELSE lam)
  ELSE 0

\* Belief.apply_message
ApplyMessage(b, value, pred, lam) ==
  LET logMult == [i \in DOMAIN b.w |->
                    MessageLogMult(value, A_c(pred, b.particles[i]), lam)]
      n == NormalizeLogWeights(AddLog(b.w, logMult), b.D)
  IN  IF value = "BOTH"
      THEN [b EXCEPT !.hasCredal = TRUE,
                     !.credal = CreateCredalFromLogitInterval(b, pred, lam, HardCodedK).posteriors,
                     !.w = n.w, !.D = n.D]
      ELSE [b EXCEPT !.w = n.w, !.D = n.D]

\* np.searchsorted(cumsum, (j + u)/N) for u = k/UDen: the first index whose
\* cumulative weight reaches the position (Len + 1 if none does)
CumSum(w, i) == SeqSum(SubSeq(w, 1, i))

SearchSorted(w, j, k) ==
  LET S == SeqSum(w)
      N == Len(w)
      hit == {i \in 1..N : CumSum(w, i) * N * UDen >= (j * UDen + k) * S}
  IN  IF hit = {} THEN N + 1 ELSE CHOOSE i \in hit : \A m \in hit : i <= m

\* Belief.resample: systematic resampling with offset u = k/UDen, uniform
\* weights, then the jitter jit added to the particles
Resample(b, k, jit) ==
  LET N == Len(b.w)
      idx == [j \in 1..N |-> SearchSorted(b.w, j - 1, k)]
  IN  [b EXCEPT !.particles = [j \in 1..N |->
                     <<b.particles[idx[j]][1] + jit[j][1],
                       b.particles[idx[j]][2] + jit[j][2]>>],
                !.w = [j \in 1..N |-> 1],
                !.D = N]

\* Belief.ess on the weights wts = exp(log_weights - max): the fraction
\* EssNum/EssDen = 1 / sum (wts[i]/sum wts)^2 = (sum wts)^2 / sum wts^2
EssNum(wts) == SeqSum(wts) * SeqSum(wts)

EssDenNoSquare(wts) == SeqSum(wts)

EssDen(wts) == SeqSum([i \in DOMAIN wts |-> wts[i] * wts[i]])

(***************************************************************************)
(* Inputs of the belief operations                                         *)
(***************************************************************************)
\* a particle set a reset can draw (grid points); resampling produces the
\* sets with repeated particles
PriorDrawA == << <<1, 0>>, <<0, 1>>, <<-1, -1>>, <<1, -1>>, <<0, 0>> >>
InitParticleSets == { SubSeq(PriorDrawA, 1, NParticles) }

\* observations
ObsSet == { <<0, 0>>, <<1, 0>>, <<1, 2>> }

\* source logits in bits: r_s = 0.2, 0.5, 0.8
Logits == {-2, 0, 2}

BelnapValues == {"TRUE", "FALSE", "NEITHER", "BOTH"}

\* source logits of the BOTH messages the belief specification applies
BothLogits == {2}

\* values of K for which every LogitValue is a whole number of bits
CredalKs == {1, 2, 3, 5}

\* the configured credal K (configuration section credal, K >= 1): the
\* reference scenario's value, and the values a configuration may set
ReferenceKs == {5}
ConfigKs == {1, 3, 5}

\* jitter draws: none, or one particle moved by one grid step
ZeroJitter == [j \in 1..NParticles |-> <<0, 0>>]
JitterSet == {ZeroJitter, [ZeroJitter EXCEPT ![1] = <<1, 0>>]}

(***************************************************************************)
(* Specification of the belief operations: a Belief as Agent.reset leaves  *)
(* it, then any sequence of update_obs, apply_message and resample.        *)
(* lastOp names the operation of the last step ("obs", "resample", or the  *)
(* Belnap value of the message applied).                                   *)
(***************************************************************************)
NoCredalOut == [pred |-> "x_gt_0", lam |-> 0, K |-> 0, posteriors |-> <<>>]

\* no environment constructed, no step annotation returned
NoEnv == [state |-> <<0, 0>>, timestep |-> 0, obs |-> <<0, 0>>, done |-> FALSE,
          goal_reached |-> FALSE, violated_safety |-> FALSE]
NoInfo == [timestep |-> 0]

BeliefInitWith(Ks) ==
  /\ \E ps \in InitParticleSets : belief = NewBelief(ps)
  /\ lastOp = "init"
  /\ credalOut = NoCredalOut
  /\ config \in [credal_K : Ks]
  /\ env = NoEnv
  /\ info = NoInfo

BeliefInit == BeliefInitWith(ReferenceKs)

Bounded(b) ==
  /\ SeqMax(b.w) <= MaxWeight
  /\ \A i \in DOMAIN b.particles :
        b.particles[i][1] \in GridCoords /\ b.particles[i][2] \in GridCoords

BUpdateObs ==
  \E o \in ObsSet :
    /\ Bounded(UpdateObs(belief, o))
    /\ belief' = UpdateObs(belief, o)
    /\ lastOp' = "obs"
    /\ credalOut' = NoCredalOut
    /\ UNCHANGED <<config, env, info>>

BApplyMessage ==
  \E v \in BelnapValues \ {"BOTH"}, p \in Preds, lam \in Logits :
    /\ Bounded(ApplyMessage(belief, v, p, lam))
    /\ belief' = ApplyMessage(belief, v, p, lam)
    /\ lastOp' = v
    /\ credalOut' = NoCredalOut
    /\ UNCHANGED <<config, env, info>>

BApplyBoth ==
  \E p \in Preds, lam \in BothLogits :
    /\ belief' = ApplyMessage(belief, "BOTH", p, lam)
    /\ lastOp' = "BOTH"
    /\ credalOut' = NoCredalOut
    /\ UNCHANGED <<config, env, info>>

BResample ==
  \E k \in 0..(UDen - 1), jit \in JitterSet :
    /\ Bounded(Resample(belief, k, jit))
    /\ belief' = Resample(belief, k, jit)
    /\ lastOp' = "resample"
    /\ credalOut' = NoCredalOut
    /\ UNCHANGED <<config, env, info>>

BeliefNext == BUpdateObs \/ BApplyMessage \/ BApplyBoth \/ BResample

SpecBelief == BeliefInit /\ [][BeliefNext]_beliefVars

(***************************************************************************)
(* The same operations on an agent whose configuration sets credal K.      *)
(***************************************************************************)
ConfigNext == BUpdateObs \/ BApplyMessage \/ BApplyBoth

SpecBeliefConfig == BeliefInitWith(ConfigKs) /\ [][ConfigNext]_beliefVars

(***************************************************************************)
(* Specification of create_credal_from_logit_interval called directly on   *)
(* the beliefs that update_obs, apply_message (TRUE, FALSE, NEITHER) and   *)
(* resample reach; credalOut is the CredalSet the call returned when the    *)
(* last step was such a call, and empty otherwise.                         *)
(***************************************************************************)
CCreateCredal ==
  \E p \in Preds, lam \in Logits, K \in CredalKs :
    /\ LET r == CreateCredalFromLogitInterval(belief, p, lam, K)
       IN  /\ credalOut' = [pred |-> p, lam |-> lam, K |-> K, posteriors |-> r.posteriors]
           /\ belief' = r.base
    /\ lastOp' = "credal"
    /\ UNCHANGED <<config, env, info>>

CredalNext == CCreateCredal \/ BUpdateObs \/ BApplyMessage \/ BResample

SpecCredal == BeliefInit /\ [][CredalNext]_beliefVars

(***************************************************************************)
(* Properties of the belief operations                                     *)
(***************************************************************************)
TVRange == 1024
MaxLogit == 2

Normalized(b) ==
  /\ SeqSum(b.w) = b.D
  /\ \A i \in DOMAIN b.w : b.w[i] > 0

Uniform(b) == \A i, j \in DOMAIN b.w : b.w[i] = b.w[j]

\* twice the total variation distance of two beliefs is TVNum / (Sa * Sb)
TVNum(a, b) ==
  SeqSum([i \in DOMAIN a.w |-> Abs(a.w[i] * SeqSum(b.w) - b.w[i] * SeqSum(a.w))])

\* total variation distance <= 1e-6
TVWithin(a, b) == TVNum(a, b) <= ((2 * SeqSum(a.w) * SeqSum(b.w)) \div 1000000)

InRange(b) == SeqMax(b.w) <= TVRange

ObsThenMsg(b, o, v, p, lam) == ApplyMessage(UpdateObs(b, o), v, p, lam)
MsgThenObs(b, o, v, p, lam) == UpdateObs(ApplyMessage(b, v, p, lam), o)

\* C5: on every reachable belief, for every observation, every message value
\* in {TRUE, FALSE, NEITHER}, every predicate and every source logit, the
\* order observation-then-message and the order message-then-observation give
\* normalized weights at total variation distance <= 1e-6.
Thm_C5 ==
  \A o \in ObsSet, v \in BelnapValues \ {"BOTH"}, p \in Preds, lam \in Logits :
    LET om == ObsThenMsg(belief, o, v, p, lam)
        mo == MsgThenObs(belief, o, v, p, lam)
    IN  (InRange(om) /\ InRange(mo)) => TVWithin(om, mo)

Witness_C5 ==
  /\ ~Uniform(belief)
  /\ \E o \in ObsSet, p \in Preds :
       /\ InRange(ObsThenMsg(belief, o, "TRUE", p, 2))
       /\ InRange(MsgThenObs(belief, o, "TRUE", p, 2))
       /\ UpdateObs(belief, o).w # belief.w
       /\ ApplyMessage(belief, "TRUE", p, 2).w # belief.w
       /\ ObsThenMsg(belief, o, "TRUE", p, 2).w # UpdateObs(belief, o).w

\* C6: after any sequence of update_obs, apply_message (any Belnap value) and
\* resample from uniform weights, the weights sum to 1 and every log-weight
\* is finite (every weight is positive).
Thm_C6 == Normalized(belief)

Witness_C6 ==
  /\ lastOp = "obs"
  /\ ~Uniform(belief)
  /\ belief.hasCredal

\* the weights exp(log_weights - max) when particle i dominates and every
\* other exponential underflows to zero
UnitWeights(i) == [j \in 1..NParticles |-> IF j = i THEN 1 ELSE 0]

\* C7: on every reachable belief 1 <= ESS <= N; ESS = N when the weights are
\* uniform, in particular right after construction and right after resample;
\* ESS = 1 when a single particle holds all the weight.
Thm_C7 ==
  /\ EssDen(belief.w) <= EssNum(belief.w)
  /\ EssNum(belief.w) <= Len(belief.w) * EssDen(belief.w)
  /\ Uniform(belief) => EssNum(belief.w) = Len(belief.w) * EssDen(belief.w)
  /\ lastOp \in {"init", "resample"} => EssNum(belief.w) = Len(belief.w) * EssDen(belief.w)
  /\ \A i \in 1..NParticles : EssNum(UnitWeights(i)) = EssDen(UnitWeights(i))

Witness_C7 ==
  /\ lastOp \in {"obs", "TRUE", "FALSE"}
  /\ EssDen(belief.w) < EssNum(belief.w)
  /\ EssNum(belief.w) < Len(belief.w) * EssDen(belief.w)

\* the factor e^(sign*lambda) where the claim holds, e^(-sign*lambda)
\* elsewhere, scaled by 2^MaxLogit to a whole number
MsgFactor(b, i, p, lam, sign) ==
  IF A_c(p, b.particles[i]) THEN Pow2(MaxLogit + sign * lam) ELSE Pow2(MaxLogit - sign * lam)

\* the weights of b2 are those of b times the factors, renormalized
Reweighted(b, b2, p, lam, sign) ==
  /\ Normalized(b2)
  /\ \A i, j \in DOMAIN b.w :
       b2.w[i] * b.w[j] * MsgFactor(b, j, p, lam, sign)
         = b2.w[j] * b.w[i] * MsgFactor(b, i, p, lam, sign)

SameFrame(b, b2) ==
  /\ b2.particles = b.particles
  /\ b2.hasCredal = b.hasCredal
  /\ b2.credal = b.credal

\* C8: on every reachable belief, apply_message with TRUE multiplies the
\* weights by e^(+lambda) where the predicate holds and e^(-lambda) elsewhere,
\* FALSE swaps the signs, NEITHER leaves the normalized weights as they were;
\* all three leave the particles and the credal set (attached or not) alone.
Thm_C8 ==
  \A p \in Preds, lam \in Logits :
    /\ Reweighted(belief, ApplyMessage(belief, "TRUE", p, lam), p, lam, 1)
    /\ Reweighted(belief, ApplyMessage(belief, "FALSE", p, lam), p, lam, -1)
    /\ ApplyMessage(belief, "NEITHER", p, lam).w = belief.w
    /\ ApplyMessage(belief, "NEITHER", p, lam).D = belief.D
    /\ \A v \in BelnapValues \ {"BOTH"} : SameFrame(belief, ApplyMessage(belief, v, p, lam))

Witness_C8 ==
  /\ lastOp = "TRUE"
  /\ belief.hasCredal
  /\ ~Uniform(belief)
  /\ \E i, j \in DOMAIN belief.w :
       A_c("x_gt_0", belief.particles[i]) /\ ~A_c("x_gt_0", belief.particles[j])

\* C9 (as claimed): a BOTH message attaches a credal set of exactly K
\* posteriors, K being the configured credal K, so the credal_K reported is 0
\* (no credal set) or the configured K.
Claim_C9 ==
  /\ belief.hasCredal => Len(belief.credal) = config.credal_K
  /\ ~belief.hasCredal => Len(belief.credal) = 0

\* the logit of posterior k as claimed: (K-1) * lambda_k = lambda_s * (2k - (K-1))
ClaimedLogit(lam, k, K) ==
  IF K = 1 THEN 0 ELSE (lam * (2 * k - (K - 1))) \div (K - 1)

PosteriorFactor(b, i, p, lv) ==
  IF A_c(p, b.particles[i]) THEN Pow2(MaxLogit + lv) ELSE Pow2(MaxLogit - lv)

PosteriorOK(b, q, p, lv) ==
  /\ q.particles = b.particles
  /\ ~q.hasCredal
  /\ q.credal = <<>>
  /\ Normalized(q)
  /\ \A i, j \in DOMAIN b.w :
       q.w[i] * b.w[j] * PosteriorFactor(b, j, p, lv)
         = q.w[j] * b.w[i] * PosteriorFactor(b, i, p, lv)

CredalOK(b, c) ==
  /\ Len(c.posteriors) = c.K
  /\ \A k \in 0..(c.K - 1) :
       /\ (c.K > 1) => (c.lam * (2 * k - (c.K - 1))) % (c.K - 1) = 0
       /\ PosteriorOK(b, c.posteriors[k + 1], c.pred, ClaimedLogit(c.lam, k, c.K))
  /\ c.K > 1 => /\ PosteriorOK(b, c.posteriors[1], c.pred, 0 - c.lam)
                /\ PosteriorOK(b, c.posteriors[c.K], c.pred, c.lam)

AlphaNum == 1
AlphaDen == 20
SlackPenalty == 100

Dot(a, b) == a[1] * b[1] + a[2] * b[2]
Min(a, b) == IF a <= b THEN a ELSE b

\* BarrierFunction.evaluate: h(x) = ||x - c||^2 - r^2, r2 the squared radius
BarrierEvaluate(x, r2) == Dot(x, x) - r2

\* BarrierFunction.gradient: 2 (x - c)
BarrierGradient(x) == <<2 * x[1], 2 * x[2]>>

\* 2*AlphaDen times the step t along the gradient that the optimum takes:
\* t = min(delta, p*G/2), where delta = dA / AlphaDen is the amount by which
\* u_des misses the constraint and G = ||grad_h||^2
StepLength(dA, G, p) == Min(2 * dA, p * G * AlphaDen)

\* a filter that passes u_des through
QPUnfiltered(x, uDes, r2, p) ==
  [u |-> [n |-> uDes, d |-> 1], slack |-> [n |-> 0, d |-> 1]]

\* the minimiser of ||u - u_des||^2 + p*s subject to g.u >= -alpha*h - s and
\* s >= 0, which OSQP returns with status optimal
QPOptimum(x, uDes, r2, p) ==
  LET h == BarrierEvaluate(x, r2)
      g == BarrierGradient(x)
      G == Dot(g, g)
      dA == (0 - AlphaNum * h) - AlphaDen * Dot(g, uDes)
  IN  IF dA <= 0
        THEN [u |-> [n |-> uDes, d |-> 1], slack |-> [n |-> 0, d |-> 1]]
        ELSE IF G = 0
          THEN [u |-> [n |-> uDes, d |-> 1], slack |-> [n |-> dA, d |-> AlphaDen]]
          ELSE LET T == StepLength(dA, G, p)
                   c == GCD(T, 2 * AlphaDen * G)
                   tn == T \div c
                   td == (2 * AlphaDen * G) \div c
               IN  [u |-> [n |-> <<uDes[1] * td + tn * g[1], uDes[2] * td + tn * g[2]>>,
                           d |-> td],
                    slack |-> [n |-> 2 * dA - T, d |-> 2 * AlphaDen]]

\* how prob.solve can end: status optimal or optimal_inaccurate; another
\* status with the last iterate in u.value (iteration limit); another status
\* with u.value = None; an exception out of prob.solve; non-finite values
SolverOutcomes ==
  {"optimal", "optimal_inaccurate", "user_limit", "infeasible", "solver_error", "nonfinite"}

Finite(v) == [kind |-> "finite", n |-> v.n, d |-> v.d]
ZeroControl == [kind |-> "finite", n |-> <<0, 0>>, d |-> 1]
NaNControl == [kind |-> "nan", n |-> <<0, 0>>, d |-> 1]
InfSlack == [kind |-> "inf", n |-> 0, d |-> 1]
NaNSlack == [kind |-> "nan", n |-> 0, d |-> 1]

\* SafetyFilter.filter: the pair (u_safe, slack) it returns, and whether it
\* raised instead.  A status outside optimal / optimal_inaccurate is only
\* logged; comparing a None slack raises inside the try block, and the except
\* clause turns that and every solver exception into (zeros, inf).
Filter(x, uDes, r2, p, outcome, iterate) ==
  LET opt == QPOptimum(x, uDes, r2, p)
  IN  IF outcome \in {"optimal", "optimal_inaccurate"}
        THEN [raised |-> FALSE, u_safe |-> Finite(opt.u), slack |-> Finite(opt.slack)]
        ELSE IF outcome = "user_limit"
          THEN [raised |-> FALSE,
                u_safe |-> Finite([n |-> iterate, d |-> 1]),
                slack |-> Finite([n |-> 0, d |-> 1])]
          ELSE IF outcome = "nonfinite"
            THEN [raised |-> FALSE, u_safe |-> NaNControl, slack |-> NaNSlack]
            ELSE [raised |-> FALSE, u_safe |-> ZeroControl, slack |-> InfSlack]

(***************************************************************************)
(* Specification of the filter alone: one call of filter(x, u_des) for any *)
(* state x on a grid of pitch 0.1 m around the obstacle of radius 0.3 m,   *)
(* any nominal control on a grid of pitch 1 m/s, slack penalty 10 or 1000, *)
(* solver status optimal.                                                  *)
(***************************************************************************)
FilterCoords == -4..4
ControlCoords == -2..2
PenaltySet == {1, SlackPenalty}
RadiusDm == 3

NoResult == [raised |-> FALSE, u_safe |-> ZeroControl, slack |-> InfSlack]

FilterInit ==
  /\ belief = NewBelief(SubSeq(PriorDrawA, 1, NParticles))
  /\ lastOp = "init"
  /\ credalOut = NoCredalOut
  /\ config \in [credal_K : ReferenceKs]
  /\ env = NoEnv
  /\ \E x \in FilterCoords \X FilterCoords, uDes \in ControlCoords \X ControlCoords,
        p \in PenaltySet :
       info = [x |-> x, u_desired |-> uDes, p |-> p, result |-> NoResult]

FFilter ==
  /\ lastOp = "init"
  /\ info' = [info EXCEPT !.result =
                Filter(info.x, info.u_desired, RadiusDm * RadiusDm, info.p, "optimal",
                       info.u_desired)]
  /\ lastOp' = "filter"
  /\ UNCHANGED <<belief, credalOut, config, env>>

FilterNext == FFilter

SpecFilter == FilterInit /\ [][FilterNext]_vars

(***************************************************************************)
(* Properties of the filter                                                *)
(***************************************************************************)
CandidateControls == (-3..3) \X (-3..3)

\* grad_h(x).v >= -alpha*h(x) - s for the control v = vn/vd and slack s
InHalfSpace(x, r2, vn, vd, s) ==
  Dot(BarrierGradient(x), vn) * AlphaDen * s.d
    >= ((0 - AlphaNum * BarrierEvaluate(x, r2) * s.d) - s.n * AlphaDen) * vd

\* squared distance of the control vn/vd to uDes, times vd^2
Dist2Scaled(vn, vd, uDes) ==
  (vn[1] - uDes[1] * vd) * (vn[1] - uDes[1] * vd)
    + (vn[2] - uDes[2] * vd) * (vn[2] - uDes[2] * vd)

\* C4: after a call of filter(x, u_des) whose solve ended optimal, u_safe is
\* finite, the slack s is >= 0, grad_h(x).u_safe >= -alpha*h(x) - s, no
\* control of that half-space is closer to u_des than u_safe, and when u_des
\* itself satisfies grad_h(x).u_des >= -alpha*h(x) the result is u_des, s = 0.
Thm_C4 ==
  lastOp = "filter" =>
    LET r == info.result
        u == r.u_safe
        s == r.slack
        r2 == RadiusDm * RadiusDm
    IN  /\ ~r.raised
        /\ u.kind = "finite" /\ u.d > 0
        /\ s.kind = "finite" /\ s.d > 0
        /\ s.n >= 0
        /\ InHalfSpace(info.x, r2, u.n, u.d, s)
        /\ \A v \in CandidateControls :
             InHalfSpace(info.x, r2, v, 1, s)
               => Dist2Scaled(u.n, u.d, info.u_desired)
                    <= Dist2Scaled(v, 1, info.u_desired) * u.d * u.d
        /\ InHalfSpace(info.x, r2, info.u_desired, 1, [n |-> 0, d |-> 1])
             => (u.n = <<info.u_desired[1] * u.d, info.u_desired[2] * u.d>> /\ s.n = 0)

\* the filter moved the control and relaxed the constraint
Witness_C4 ==
  /\ lastOp = "filter"
  /\ info.result.u_safe.n
       # <<info.u_desired[1] * info.result.u_safe.d, info.u_desired[2] * info.result.u_safe.d>>
  /\ info.result.slack.n > 0
  /\ info.x # <<0, 0>>

(***************************************************************************)
(* The reference loop: ForbiddenCircleEnv (envs/forbidden_circle/env.py)   *)
(* and Agent (policy/agent.py, policy/planner.py).                         *)
(*                                                                         *)
(* Units.  Positions are whole multiples of 5 mm, controls of 0.05 m/s, so *)
(* that x + u*dt is x + u.  Particles and observations lie on the coarse   *)
(* grid of Pitch = 24 position units (0.12 m, sigma*sqrt(2 ln 2) for the   *)
(* observation noise sigma = 0.1 m to the nearest unit); an observation is *)
(* the grid point nearest the state plus a noise of whole grid steps.      *)
(***************************************************************************)
Pitch == 24
Radius == 60
GoalCoord == 160
GoalRadius == 20
MaxAction == 3
MaxTimesteps == 50
Gain == 20
ResetRadiusMin == 100
ResetRadiusMax == 200
ThresholdNum == 1
ThresholdDen == 2

\* largest spread of the log-likelihoods (bits) of one observation, and
\* largest weight numerator, that the model follows
MaxSpread == 12
MaxLoopWeight == 4096

\* steps of an episode that the model follows when solves can fail
FaultHorizon == 2

\* a / b rounded to the nearest integer, b > 0
RoundDiv(a, b) == (2 * a + b) \div (2 * b)

\* Belief.mean, in position units
BeliefMean(b) ==
  <<RoundDiv(Pitch * SeqSum([i \in DOMAIN b.w |-> b.w[i] * b.particles[i][1]]), b.D),
    RoundDiv(Pitch * SeqSum([i \in DOMAIN b.w |-> b.w[i] * b.particles[i][2]]), b.D)>>

\* gain * a / sqrt(d2) rounded to the nearest integer, for |a| <= sqrt(d2)
Scaled(a, d2) ==
  LET m == Abs(a)
      q == CHOOSE k \in 0..Gain :
             /\ (2 * k - 1) * (2 * k - 1) * d2 <= 4 * Gain * Gain * m * m
             /\ \A j \in 0..Gain :
                  (2 * j - 1) * (2 * j - 1) * d2 <= 4 * Gain * Gain * m * m => j <= k
  IN  IF a < 0 THEN 0 - q ELSE q

\* Policy.select_action on a belief without credal set
SelectAction(mean) ==
  LET direction == <<GoalCoord - mean[1], GoalCoord - mean[2]>>
      d2 == Dot(direction, direction)
  IN  IF d2 = 0 THEN <<0, 0>>
      ELSE <<Scaled(direction[1], d2), Scaled(direction[2], d2)>>

\* np.clip of one component n/d to [-max_action, max_action], then the
\* position increment it makes in one step
ClipStep(n, d) ==
  IF n > MaxAction * d THEN MaxAction
  ELSE IF n < (0 - MaxAction) * d THEN 0 - MaxAction
  ELSE RoundDiv(n, d)

IsAtGoal(x) ==
  (x[1] - GoalCoord) * (x[1] - GoalCoord) + (x[2] - GoalCoord) * (x[2] - GoalCoord)
    <= GoalRadius * GoalRadius

IsInObstacle(x) == Dot(x, x) < Radius * Radius

\* _get_observation: the state plus noise, on the coarse grid
Observation(x, noise) ==
  <<RoundDiv(x[1], Pitch) + noise[1], RoundDiv(x[2], Pitch) + noise[2]>>

LogSpread(b, o) ==
  LET d == [i \in DOMAIN b.particles |-> Dist2(o, b.particles[i])]
  IN  SeqMax(d) - SeqMin(d)

\* states env.reset can draw: at distance 0.5 m to 1.0 m from the origin
StartStates ==
  {x \in {<<-72, -72>>, <<-96, -72>>} :
     /\ ResetRadiusMin * ResetRadiusMin <= Dot(x, x)
     /\ Dot(x, x) <= ResetRadiusMax * ResetRadiusMax
     /\ ~IsInObstacle(x)}

\* a particle set Agent.reset can draw (coarse grid points), around the
\* states above
LoopDraw == << <<-3, -3>>, <<-3, -4>>, <<-4, -3>>, <<-4, -4>>, <<-2, -3>> >>

\* observation noise, in coarse grid steps
NoiseSet == {<<0, 0>>, <<-1, -1>>}

\* the last ADMM iterate when the solve stops at the iteration limit
Iterates(uDes) == {uDes, <<0, 0>>}

LoopInit ==
  /\ belief = NewBelief([i \in 1..NParticles |-> <<0, 0>>])
  /\ lastOp = "init"
  /\ credalOut = NoCredalOut
  /\ config \in [credal_K : ReferenceKs]
  /\ env = NoEnv
  /\ info = NoInfo

\* ForbiddenCircleEnv.reset
EnvReset ==
  /\ lastOp = "init" \/ (lastOp = "step" /\ env.done)
  /\ \E x \in StartStates, noise \in NoiseSet :
       env' = [state |-> x, timestep |-> 0, obs |-> Observation(x, noise),
               done |-> FALSE, goal_reached |-> FALSE, violated_safety |-> FALSE]
  /\ lastOp' = "env_reset"
  /\ UNCHANGED <<belief, credalOut, config, info>>

\* Agent.reset
AgentReset ==
  /\ lastOp = "env_reset"
  /\ belief' = NewBelief(SubSeq(LoopDraw, 1, NParticles))
  /\ info' = NoInfo
  /\ lastOp' = "reset"
  /\ UNCHANGED <<credalOut, config, env>>

\* Agent.act(obs) without env argument (the query branch is skipped), the
\* solve ending in one of the given outcomes; the model follows an episode
\* for horizon steps
Act(outcomes, horizon) ==
  /\ lastOp \in {"reset", "step"}
  /\ ~env.done
  /\ env.timestep < horizon
  /\ LogSpread(belief, env.obs) <= MaxSpread
  /\ \E b1 \in {UpdateObs(belief, env.obs)} :
       /\ SeqMax(b1.w) <= MaxLoopWeight
       /\ \E b2 \in IF EssNum(b1.w) * ThresholdDen < ThresholdNum * Len(b1.w) * EssDen(b1.w)
                      THEN {Resample(b1, k, ZeroJitter) : k \in 0..(UDen - 1)}
                      ELSE {b1} :
          \E mean \in {BeliefMean(b2)} :
          \E uDes \in {SelectAction(mean)} :
          \E outcome \in outcomes :
          \E iterate \in IF outcome = "user_limit" THEN Iterates(uDes) ELSE {uDes} :
          \E f \in {Filter(mean, uDes, Radius * Radius, SlackPenalty, outcome, iterate)} :
          \E failed \in {f.raised \/ f.u_safe.kind # "finite"} :
          \E action \in {IF failed THEN ZeroControl ELSE f.u_safe} :
            /\ belief' = b2
            /\ info' = [timestep |-> info.timestep + 1,
                        belief_mean |-> mean,
                        u_desired |-> uDes,
                        u_safe |-> action,
                        slack |-> f.slack,
                        safety_filter_error |-> failed,
                        safety_filter_active |->
                          failed \/ action.n # <<uDes[1] * action.d, uDes[2] * action.d>>,
                        status |-> outcome,
                        filter_raised |-> f.raised]
  /\ lastOp' = "act"
  /\ UNCHANGED <<credalOut, config, env>>

ActOptimal == Act({"optimal"}, MaxTimesteps)
ActAny == Act(SolverOutcomes, FaultHorizon)

\* ForbiddenCircleEnv.step(action)
Step ==
  /\ lastOp = "act"
  /\ \E noise \in NoiseSet :
       LET a == info.u_safe
           x == <<env.state[1] + ClipStep(a.n[1], a.d), env.state[2] + ClipStep(a.n[2], a.d)>>
           t == env.timestep + 1
       IN  env' = [state |-> x, timestep |-> t, obs |-> Observation(x, noise),
                   done |-> IsAtGoal(x) \/ t >= MaxTimesteps,
                   goal_reached |-> IsAtGoal(x),
                   violated_safety |-> IsInObstacle(x)]
  /\ lastOp' = "step"
  /\ UNCHANGED <<belief, credalOut, config, info>>

\* the reference loop, every solve ending optimal
LoopNext == EnvReset \/ AgentReset \/ ActOptimal \/ Step
SpecLoop == LoopInit /\ [][LoopNext]_vars

\* the reference loop, the solve ending in any way it can
FaultNext == EnvReset \/ AgentReset \/ ActAny \/ Step
SpecLoopFaults == LoopInit /\ [][FaultNext]_vars

\* C1 (as claimed): no env.step reports violated_safety = true.
Claim_C1 == ~env.violated_safety

SolveSucceeded == info.status \in {"optimal", "optimal_inaccurate"}

\* C2 (as claimed): in a step whose solve ended with a status other than
\* optimal or optimal_inaccurate (solver exception, missing or non-finite
\* solution included) the filter raised an error instead of returning a pair,
\* and act emitted the zero action, never the unfiltered u_des.
Claim_C2 ==
  (lastOp = "act" /\ ~SolveSucceeded) =>
    /\ info.filter_raised
    /\ info.u_safe = ZeroControl

\* C3 (as claimed): a step in which the solve failed and the zero action was
\* emitted carries a non-null safety_filter_error, and a step whose solve
\* succeeded carries a null one.
Claim_C3 ==
  lastOp = "act" =>
    /\ (~SolveSucceeded /\ info.u_safe = ZeroControl) => info.safety_filter_error
    /\ SolveSucceeded => ~info.safety_filter_error

(***************************************************************************)
(* CredalSet (core/credal.py): lower_expectation, mean, variance.          *)
(* A CredalSet is the sequence of its posteriors; K is its length, which   *)
(* __init__ and add_posterior keep equal to len(posteriors).  An           *)
(* expectation is the rational n/d with d > 0.                             *)
(***************************************************************************)
MaxPosteriors == 2

\* the functions f : state -> number that the model passes
Funcs == {"x", "y", "neg_x", "x_gt_0", "one"}

Apply(f, p) ==
  IF f = "x" THEN p[1]
  ELSE IF f = "y" THEN p[2]
  ELSE IF f = "neg_x" THEN 0 - p[1]
  ELSE IF f = "x_gt_0" THEN (IF p[1] > 0 THEN 1 ELSE 0)
  ELSE 1

\* E_P[f] = sum_i w_i f(x_i) with the weights exp(lw - max) / sum
Expectation(b, f) ==
  [n |-> SeqSum([i \in DOMAIN b.w |-> b.w[i] * Apply(f, b.particles[i])]),
   d |-> SeqSum(b.w)]

RatLeq(a, b) == a.n * b.d <= b.n * a.d
RatEq(a, b) == a.n * b.d = b.n * a.d

\* max(expectations)
MaxOf(es) == es[CHOOSE i \in DOMAIN es : \A j \in DOMAIN es : RatLeq(es[j], es[i])]

\* min(expectations)
MinOf(es) == es[CHOOSE i \in DOMAIN es : \A j \in DOMAIN es : RatLeq(es[i], es[j])]

Raised == [raised |-> TRUE, value |-> <<>>]
Returned(v) == [raised |-> FALSE, value |-> v]

\* CredalSet.lower_expectation(f)
LowerExpectation(ps, f) ==
  IF Len(ps) = 0 THEN Raised
  ELSE Returned(MinOf([k \in DOMAIN ps |-> Expectation(ps[k], f)]))

\* CredalSet.mean(): the lower expectation of each coordinate
CredalMean(ps) ==
  IF Len(ps) = 0 THEN Raised
  ELSE Returned(<<LowerExpectation(ps, "x").value, LowerExpectation(ps, "y").value>>)

\* np.average((particles - mean)^2, weights) in dimension dim (1 or 2):
\* (S * sum w x^2 - (sum w x)^2) / S^2 with S = sum w
Variance(b, dim) ==
  LET S == SeqSum(b.w)
      m1 == SeqSum([i \in DOMAIN b.w |-> b.w[i] * b.particles[i][dim]])
      m2 == SeqSum([i \in DOMAIN b.w |-> b.w[i] * b.particles[i][dim] * b.particles[i][dim]])
  IN  [n |-> S * m2 - m1 * m1, d |-> S * S]

\* CredalSet.variance(): the largest variance over the posteriors and zero
CredalVariance(ps) ==
  IF Len(ps) = 0 THEN Raised
  ELSE Returned([dim \in 1..2 |->
         MaxOf(<<[n |-> 0, d |-> 1]>> \o [k \in DOMAIN ps |-> Variance(ps[k], dim)])])

\* beliefs a caller can pass to add_posterior
PosteriorCandidates ==
  {b \in {UpdateObs(belief, o) : o \in ObsSet}
           \cup {ApplyMessage(belief, "TRUE", p, lam) : p \in Preds, lam \in Logits} :
     Bounded(b)}

\* CredalSet() and CredalSet(posteriors) as create_credal_from_logit_interval
\* builds it
NewCredalSet ==
  /\ lastOp \in {"init", "lower_expectation", "mean", "variance"}
  /\ \/ credalOut' = [pred |-> "x_gt_0", lam |-> 0, K |-> 0, posteriors |-> <<>>]
     \/ \E p \in Preds, lam \in BothLogits, K \in CredalKs :
          credalOut' = [pred |-> p, lam |-> lam, K |-> K,
                        posteriors |-> CreateCredalFromLogitInterval(belief, p, lam, K).posteriors]
  /\ lastOp' = "credal_set"
  /\ UNCHANGED <<belief, config, env, info>>

\* CredalSet.add_posterior(belief)
AddPosterior ==
  /\ lastOp \in {"credal_set", "add_posterior"}
  /\ Len(credalOut.posteriors) < MaxPosteriors
  /\ \E b \in PosteriorCandidates :
       credalOut' = [credalOut EXCEPT !.posteriors = Append(@, b), !.K = @ + 1]
  /\ lastOp' = "add_posterior"
  /\ UNCHANGED <<belief, config, env, info>>

CallLowerExpectation ==
  /\ lastOp \in {"credal_set", "add_posterior"}
  /\ \E f \in Funcs :
       info' = [f |-> f, result |-> LowerExpectation(credalOut.posteriors, f)]
  /\ lastOp' = "lower_expectation"
  /\ UNCHANGED <<belief, credalOut, config, env>>

CallMean ==
  /\ lastOp \in {"credal_set", "add_posterior"}
  /\ info' = [f |-> "x", result |-> CredalMean(credalOut.posteriors)]
  /\ lastOp' = "mean"
  /\ UNCHANGED <<belief, credalOut, config, env>>

CallVariance ==
  /\ lastOp \in {"credal_set", "add_posterior"}
  /\ info' = [f |-> "x", result |-> CredalVariance(credalOut.posteriors)]
  /\ lastOp' = "variance"
  /\ UNCHANGED <<belief, credalOut, config, env>>

LowerNext == NewCredalSet \/ AddPosterior \/ CallLowerExpectation \/ CallMean \/ CallVariance

SpecLower == BeliefInit /\ [][LowerNext]_vars

\* C11: after lower_expectation(f) on a credal set with K >= 1 posteriors the
\* value returned is <= the expectation of f under every posterior and equal
\* to the expectation under one of them; on an empty credal set
\* lower_expectation, mean and variance raise.
Thm_C11 ==
  LET ps == credalOut.posteriors
      r == info.result
  IN  /\ (lastOp = "lower_expectation" /\ Len(ps) >= 1) =>
           /\ ~r.raised
           /\ \A k \in DOMAIN ps : RatLeq(r.value, Expectation(ps[k], info.f))
           /\ \E k \in DOMAIN ps : RatEq(r.value, Expectation(ps[k], info.f))
      /\ (lastOp \in {"lower_expectation", "mean", "variance"} /\ Len(ps) = 0) => r.raised
      /\ (lastOp \in {"mean", "variance"} /\ Len(ps) >= 1) => ~r.raised

\* a lower expectation strictly below the expectation under some posterior
Witness_C11 ==
  /\ lastOp = "lower_expectation"
  /\ Len(credalOut.posteriors) >= 2
  /\ \E k \in DOMAIN credalOut.posteriors :
       ~RatLeq(Expectation(credalOut.posteriors[k], info.f), info.result.value)

(***************************************************************************)
(* Belnap logic (core/semantics.py).  A BelnapValue is its 2-bit code:     *)
(* NEITHER = 0, TRUE = 1, FALSE = 2, BOTH = 3; bit 0 is the truth bit and  *)
(* bit 1 the falsity bit.                                                  *)
(***************************************************************************)
NEITHER == 0
TRUE_ == 1
FALSE_ == 2
BOTH == 3
BelnapCodes == {NEITHER, TRUE_, FALSE_, BOTH}

Max(a, b) == IF a >= b THEN a ELSE b

\* x & 0b01 and (x & 0b10) >> 1
TBit(x) == x % 2
FBit(x) == (x \div 2) % 2

\* BelnapValue((f_bit << 1) | t_bit)
BelnapValue(fBit, tBit) == 2 * fBit + tBit

\* a conjunction that takes the smaller falsity bit
AndTMinF(x, y) == BelnapValue(Min(FBit(x), FBit(y)), Min(TBit(x), TBit(y)))

AndT(x, y) == BelnapValue(Max(FBit(x), FBit(y)), Min(TBit(x), TBit(y)))
OrT(x, y) == BelnapValue(Min(FBit(x), FBit(y)), Max(TBit(x), TBit(y)))
NotT(x) == BelnapValue(TBit(x), FBit(x))

\* bitwise AND and OR of the codes
Consensus(x, y) == BelnapValue(Min(FBit(x), FBit(y)), Min(TBit(x), TBit(y)))
Gullibility(x, y) == BelnapValue(Max(FBit(x), FBit(y)), Max(TBit(x), TBit(y)))

\* one call of each operation on operands x, y, z
BelnapInit ==
  /\ belief = NewBelief(SubSeq(PriorDrawA, 1, NParticles))
  /\ lastOp = "init"
  /\ credalOut = NoCredalOut
  /\ config \in [credal_K : ReferenceKs]
  /\ env = NoEnv
  /\ \E x \in BelnapCodes, y \in BelnapCodes, z \in BelnapCodes :
       info = [x |-> x, y |-> y, z |-> z]

CallBelnap ==
  /\ lastOp = "init"
  /\ info' = [x |-> info.x, y |-> info.y, z |-> info.z,
              and_t |-> AndT(info.x, info.y), or_t |-> OrT(info.x, info.y),
              not_t |-> NotT(info.x),
              consensus |-> Consensus(info.x, info.y),
              gullibility |-> Gullibility(info.x, info.y)]
  /\ lastOp' = "belnap"
  /\ UNCHANGED <<belief, credalOut, config, env>>

BelnapNext == CallBelnap

SpecBelnap == BelnapInit /\ [][BelnapNext]_vars

\* C12: for the operands x, y, z of the calls: and_t, or_t, consensus and
\* gullibility commute; and_t and or_t are associative; both absorption laws;
\* not_t is an involution; both De Morgan laws; and_t(x, TRUE) = x,
\* or_t(x, FALSE) = x, consensus(x, BOTH) = x; every result is one of the four
\* values.
Thm_C12 ==
  lastOp = "belnap" =>
    LET x == info.x
        y == info.y
        z == info.z
    IN  /\ info.and_t = AndT(y, x)
        /\ info.or_t = OrT(y, x)
        /\ info.consensus = Consensus(y, x)
        /\ info.gullibility = Gullibility(y, x)
        /\ AndT(info.and_t, z) = AndT(x, AndT(y, z))
        /\ OrT(info.or_t, z) = OrT(x, OrT(y, z))
        /\ AndT(x, info.or_t) = x
        /\ OrT(x, info.and_t) = x
        /\ NotT(info.not_t) = x
        /\ NotT(info.and_t) = OrT(NotT(x), NotT(y))
        /\ NotT(info.or_t) = AndT(NotT(x), NotT(y))
        /\ AndT(x, TRUE_) = x
        /\ OrT(x, FALSE_) = x
        /\ Consensus(x, BOTH) = x
        /\ {info.and_t, info.or_t, info.not_t, info.consensus, info.gullibility}
             \subseteq BelnapCodes

Witness_C12 ==
  /\ lastOp = "belnap"
  /\ info.x = TRUE_ /\ info.y = FALSE_ /\ info.z = BOTH
  /\ info.and_t = FALSE_ /\ info.or_t = TRUE_
  /\ info.consensus = NEITHER /\ info.gullibility = BOTH

(***************************************************************************)
(* status(s_c, s_bar_c, tau, tau_prime): supports and thresholds are       *)
(* whole hundredths.                                                       *)
(***************************************************************************)
Supports == {-10, 0, 10, 32, 40, 50, 60, 68, 90, 100, 110}
Thresholds == {<<68, 32>>, <<60, 40>>}

\* a status that needs a support above tau
StatusStrict(sC, sBarC, tau, tauPrime) ==
  IF sC > tau /\ sBarC < tauPrime THEN Returned(TRUE_)
  ELSE IF sBarC > tau /\ sC < tauPrime THEN Returned(FALSE_)
  ELSE IF sC > tau /\ sBarC > tau THEN Returned(BOTH)
  ELSE Returned(NEITHER)

Status(sC, sBarC, tau, tauPrime) ==
  IF sC >= tau /\ sBarC < tauPrime THEN Returned(TRUE_)
  ELSE IF sBarC >= tau /\ sC < tauPrime THEN Returned(FALSE_)
  ELSE IF sC >= tau /\ sBarC >= tau THEN Returned(BOTH)
  ELSE Returned(NEITHER)

StatusInit ==
  /\ belief = NewBelief(SubSeq(PriorDrawA, 1, NParticles))
  /\ lastOp = "init"
  /\ credalOut = NoCredalOut
  /\ config \in [credal_K : ReferenceKs]
  /\ env = NoEnv
  /\ \E sC \in Supports, sBarC \in Supports, th \in Thresholds :
       info = [s_c |-> sC, s_bar_c |-> sBarC, tau |-> th[1], tau_prime |-> th[2],
               result |-> Raised]

CallStatus ==
  /\ lastOp = "init"
  /\ info' = [info EXCEPT !.result = Status(info.s_c, info.s_bar_c, info.tau, info.tau_prime)]
  /\ lastOp' = "status"
  /\ UNCHANGED <<belief, credalOut, config, env>>

StatusNext == CallStatus

SpecStatus == StatusInit /\ [][StatusNext]_vars

InUnit(s) == 0 <= s /\ s <= 100

\* C13: with tau_prime < tau, status returns TRUE iff s_c >= tau and
\* s_bar_c < tau_prime, FALSE iff s_bar_c >= tau and s_c < tau_prime, BOTH iff
\* s_c >= tau and s_bar_c >= tau, NEITHER otherwise; the three conditions
\* exclude each other and a support equal to tau reaches the threshold.
Thm_C13 ==
  (lastOp = "status" /\ info.tau_prime < info.tau
     /\ InUnit(info.s_c) /\ InUnit(info.s_bar_c)) =>
    LET isT == info.s_c >= info.tau /\ info.s_bar_c < info.tau_prime
        isF == info.s_bar_c >= info.tau /\ info.s_c < info.tau_prime
        isB == info.s_c >= info.tau /\ info.s_bar_c >= info.tau
        v == info.result.value
    IN  /\ ~info.result.raised
        /\ (v = TRUE_) <=> isT
        /\ (v = FALSE_) <=> isF
        /\ (v = BOTH) <=> isB
        /\ (v = NEITHER) <=> ~(isT \/ isF \/ isB)
        /\ ~(isT /\ isF) /\ ~(isT /\ isB) /\ ~(isF /\ isB)

\* a support exactly at tau classified TRUE
Witness_C13 ==
  /\ lastOp = "status"
  /\ info.s_c = info.tau /\ info.s_bar_c < info.tau_prime
  /\ InUnit(info.s_bar_c)
  /\ info.result = Returned(TRUE_)

\* C14 (as claimed): status called with a support or countersupport outside
\* [0, 1] fails with an error instead of returning a Belnap value.
Claim_C14 ==
  (lastOp = "status" /\ ~(InUnit(info.s_c) /\ InUnit(info.s_bar_c))) => info.result.raised

(***************************************************************************)
(* Agent.act(observation, env) with the query action (policy/agent.py,     *)
(* core/query.py), with the safety filter enabled and every solve ending   *)
(* optimal.  Positions, the EVI and delta_star are in position units;      *)
(* info.evi_n is the EVI times NSamples.                                   *)
(* info also keeps the arguments of the call and the query observation.    *)
(***************************************************************************)
NSamples == 1
MaxActs == 2

\* np.linalg.norm rounded to the nearest position unit
Norm(v) ==
  LET d2 == Dot(v, v)
  IN  CHOOSE k \in 0..(4 * GoalCoord) :
        (2 * k - 1) * (2 * k - 1) <= 4 * d2 /\ 4 * d2 < (2 * k + 1) * (2 * k + 1)

\* value_fn of act: minus the distance of the belief mean to the goal
ValueFn(b) ==
  LET m == BeliefMean(b)
  IN  0 - Norm(<<m[1] - GoalCoord, m[2] - GoalCoord>>)

\* Belief.update_obs with the query noise obs_noise * 0.5: the log-density
\* is four times the one at obs_noise
QueryUpdate(b, o) ==
  LET logLik == [i \in DOMAIN b.w |-> 0 - 4 * Dist2(o, b.particles[i])]
      n == NormalizeLogWeights(AddLog(b.w, logLik), b.D)
  IN  [b EXCEPT !.w = n.w, !.D = n.D]

\* evi for the drawn observations obs, times their number: the sum of the
\* posterior values minus Len(obs) times the current value
Evi(b, obs) ==
  SeqSum([j \in DOMAIN obs |-> ValueFn(QueryUpdate(b, obs[j]))]) - Len(obs) * ValueFn(b)

\* the noisy observations evi can draw: a particle plus noise
EviDraws(b) ==
  [1..NSamples -> {<<b.particles[i][1] + n[1], b.particles[i][2] + n[2]>> :
                      i \in DOMAIN b.particles, n \in NoiseSet}]

ShouldQueryStrict(eviN, deltaStar) == eviN > NSamples * deltaStar

\* should_query
ShouldQuery(eviN, deltaStar) == eviN >= NSamples * deltaStar

\* Belief.entropy: a function of the normalized weights, kept as the weights
\* it is computed from; None when not measured
NoEntropy == [none |-> TRUE, w |-> <<>>, D |-> 0]
Entropy(b) == [none |-> FALSE, w |-> b.w, D |-> b.D]

\* observation arguments: None, or an array of some length whose entries are
\* all finite or not
ObsArgs ==
  {[none |-> TRUE, vals |-> <<>>, finite |-> TRUE]}
    \cup {[none |-> FALSE, vals |-> o, finite |-> f] : o \in ObsSet, f \in BOOLEAN}
    \cup {[none |-> FALSE, vals |-> o, finite |-> TRUE] : o \in {<<>>, <<1>>, <<1, 0, 0>>}}

ValidObservationNoFinite(obs) == ~obs.none /\ Len(obs.vals) = 2

\* the input validation of act, for state_dim = 2
ValidObservation(obs) == ~obs.none /\ Len(obs.vals) = 2 /\ obs.finite

\* thresholds Delta* a configuration may set (0.15 is 30 position units)
DeltaStars == {3, 30}

\* the particle set of the agent and the states of the environment
ActDraw == << <<0, 0>>, <<1, 0>>, <<0, 1>>, <<1, 1>> >>
ActStates == {<<0, 0>>, <<24, 24>>}

NoAct == [timestep |-> 0, observation |-> [none |-> TRUE, vals |-> <<>>, finite |-> TRUE],
          env_given |-> FALSE, raised |-> FALSE, query_triggered |-> FALSE, evi_n |-> 0,
          entropy_before_query |-> NoEntropy, entropy_after_query |-> NoEntropy,
          query_obs |-> <<>>, belief_mean |-> <<0, 0>>, u_desired |-> <<0, 0>>,
          u_safe |-> ZeroControl]

ActInit ==
  /\ belief = NewBelief(SubSeq(ActDraw, 1, NParticles))
  /\ lastOp = "init"
  /\ credalOut = NoCredalOut
  /\ config \in [enabled : BOOLEAN, delta_star : DeltaStars]
  /\ \E x \in ActStates : env = [NoEnv EXCEPT !.state = x]
  /\ info = NoAct

\* the belief left as it is, whatever its ESS
ResampleNever(b) == {b}

\* resample if the ESS is below resample_threshold * n_particles
ResampleIfNeeded(b) ==
  IF EssNum(b.w) * ThresholdDen < ThresholdNum * Len(b.w) * EssDen(b.w)
  THEN {Resample(b, k, ZeroJitter) : k \in 0..(UDen - 1)}
  ELSE {b}

StateEstimateNoCredal(b) == BeliefMean(b)

\* the state estimate of Policy.select_action: CredalSet.mean() of the
\* attached credal set (per dimension the least posterior mean), else
\* Belief.mean()
StateEstimate(b) ==
  IF b.hasCredal
  THEN [dim \in 1..2 |->
          SeqMin([k \in DOMAIN b.credal |-> BeliefMean(b.credal[k])[dim]])]
  ELSE BeliefMean(b)

\* the last part of act, on the belief b it has reached: the policy's
\* control, the filter called with the belief mean given, the timestep
\* counter advanced
FilteredAction(mean, b, t) ==
  LET uDes == SelectAction(StateEstimate(b))
      f == Filter(mean, uDes, Radius * Radius, SlackPenalty, "optimal", uDes)
      failed == f.raised \/ f.u_safe.kind # "finite"
  IN  [belief_mean |-> mean, u_desired |-> uDes,
       u_safe |-> IF failed THEN ZeroControl ELSE f.u_safe, timestep |-> t + 1]

ActOutputStale(b2, b4, fire, t) == FilteredAction(BeliefMean(b2), b4, t)

\* act after the belief updates: b2 is the belief after the observation
\* update and its resample check, b4 the one after the query branch; the
\* belief mean is computed from b2 and again from b4 when the query fired
ActOutput(b2, b4, fire, t) ==
  FilteredAction(IF fire THEN BeliefMean(b4) ELSE BeliefMean(b2), b4, t)

\* Agent.act(observation, env): envGiven tells whether env is passed
ActEnv ==
  /\ info.timestep < MaxActs
  /\ \E obs \in ObsArgs, envGiven \in BOOLEAN :
       IF ~ValidObservation(obs)
       THEN /\ info' = [NoAct EXCEPT !.timestep = info.timestep, !.observation = obs,
                                     !.env_given = envGiven, !.raised = TRUE]
            /\ lastOp' = "act_raised"
            /\ UNCHANGED <<belief, credalOut, config, env>>
       ELSE /\ LogSpread(belief, obs.vals) <= MaxSpread
            /\ \E b1 \in {UpdateObs(belief, obs.vals)} :
               /\ SeqMax(b1.w) <= MaxLoopWeight
               /\ \E b2 \in ResampleIfNeeded(b1) :
                  \E ran \in {config.enabled /\ envGiven} :
                  \E draws \in IF ran THEN EviDraws(b2) ELSE {<<>>} :
                    /\ ran => SeqMax(b2.w) <= MaxWeight * MaxWeight
                    /\ \A j \in DOMAIN draws : 4 * LogSpread(b2, draws[j]) <= MaxSpread
                    /\ \E eviN \in {IF ran THEN Evi(b2, draws) ELSE 0} :
                       \E fire \in {ran /\ ShouldQuery(eviN, config.delta_star)} :
                       \E qObs \in IF fire THEN {Observation(env.state, n) : n \in NoiseSet}
                                   ELSE {<<>>} :
                         /\ fire => 4 * LogSpread(b2, qObs) <= MaxSpread
                         /\ \E b3 \in IF fire THEN {QueryUpdate(b2, qObs)} ELSE {b2} :
                            /\ SeqMax(b3.w) <= MaxLoopWeight
                            /\ \E b4 \in IF fire THEN ResampleIfNeeded(b3) ELSE {b3} :
                               \E out \in {ActOutput(b2, b4, fire, info.timestep)} :
                               /\ belief' = b4
                               /\ info' = [timestep |-> out.timestep,
                                           observation |-> obs,
                                           env_given |-> envGiven,
                                           raised |-> FALSE,
                                           query_triggered |-> fire,
                                           evi_n |-> eviN,
                                           entropy_before_query |->
                                             IF ran THEN Entropy(b2) ELSE NoEntropy,
                                           entropy_after_query |->
                                             IF fire THEN Entropy(b4) ELSE NoEntropy,
                                           query_obs |-> qObs,
                                           belief_mean |-> out.belief_mean,
                                           u_desired |-> out.u_desired,
                                           u_safe |-> out.u_safe]
            /\ lastOp' = "act"
            /\ UNCHANGED <<credalOut, config, env>>

ActNext == ActEnv

SpecAct == ActInit /\ [][ActNext]_vars

\* C15: in act a query observation is taken iff the query is enabled, env is
\* given and the EVI of the step is >= delta_star (an EVI equal to delta_star
\* fires, a negative one never does); every step with query_triggered has
\* evi >= delta_star, and entropy_after_query is recorded in exactly the
\* steps that query.
Thm_C15 ==
  lastOp = "act" =>
    LET reached == info.evi_n >= NSamples * config.delta_star
        taken == info.query_obs # <<>>
    IN  /\ taken <=> (config.enabled /\ info.env_given /\ reached)
        /\ info.query_triggered <=> taken
        /\ info.query_triggered => reached
        /\ info.evi_n < 0 => ~taken
        /\ (~info.entropy_after_query.none) <=> taken

\* a step whose EVI equals delta_star and that took the query observation
Witness_C15 ==
  /\ lastOp = "act"
  /\ info.evi_n = NSamples * config.delta_star
  /\ info.query_triggered
  /\ info.query_obs # <<>>
  /\ ~info.entropy_after_query.none

\* C16: act called with no observation, a non-finite one or one whose length
\* is not state_dim raises, and the belief and the timestep counter are the
\* ones before the call.
Thm_C16 ==
  [][\A obs \in ObsArgs :
       (info'.observation = obs /\ lastOp' \in {"act", "act_raised"}
          /\ (obs.none \/ ~obs.finite \/ Len(obs.vals) # 2))
       => (info'.raised /\ belief' = belief /\ info'.timestep = info.timestep)]_vars

\* a call with a non-finite observation raised after an earlier step
Witness_C16 ==
  /\ lastOp = "act_raised"
  /\ info.raised /\ ~info.observation.finite
  /\ info.timestep > 0

(***************************************************************************)
(* Agent.__init__ and Agent._validate_config (policy/agent.py).  Real      *)
(* configuration values are in hundredths; has_credal tells whether the    *)
(* configuration has the optional credal section.                          *)
(***************************************************************************)
Configs ==
  [particles : {99, 100, 100001},
   resample_threshold : {9, 10, 90, 91},
   observation_noise : {0, 10},
   cbf : BOOLEAN,
   barrier_alpha : {-50, 0, 50},
   slack_penalty : {99, 100000},
   has_credal : BOOLEAN,
   trust_init : {0, 70, 100},
   enabled : BOOLEAN,
   cost : {-1, 0},
   delta_star : {-15, 0, 15}]

\* the first check of _validate_config that raises, "" if none does
ValidateConfig(c) ==
  IF c.particles < 100 THEN "particles"
  ELSE IF ~(10 <= c.resample_threshold /\ c.resample_threshold <= 90) THEN "resample_threshold"
  ELSE IF c.observation_noise <= 0 THEN "observation_noise"
  ELSE IF c.cbf /\ c.barrier_alpha <= 0 THEN "barrier_alpha"
  ELSE IF c.has_credal /\ ~(0 < c.trust_init /\ c.trust_init < 100) THEN "trust_init"
  ELSE IF c.enabled /\ c.cost < 0 THEN "cost"
  ELSE IF c.enabled /\ c.delta_star <= 0 THEN "delta_star"
  ELSE ""

\* the warnings _validate_config logs before it raises or returns
ConfigWarnings(c) ==
  {w \in {"particles", "slack_penalty"} :
     \/ w = "particles" /\ c.particles > 100000
     \/ /\ w = "slack_penalty"
        /\ c.particles >= 100
        /\ 10 <= c.resample_threshold /\ c.resample_threshold <= 90
        /\ c.observation_noise > 0
        /\ c.cbf /\ c.barrier_alpha > 0 /\ c.slack_penalty < 100}

ConstructInit ==
  /\ belief = NewBelief(<<>>)
  /\ lastOp = "init"
  /\ credalOut = NoCredalOut
  /\ config \in Configs
  /\ env = NoEnv
  /\ info = [raised |-> "", warnings |-> {}, created |-> FALSE]

\* Agent(config)
Construct ==
  /\ lastOp = "init"
  /\ \E failed \in {ValidateConfig(config)} :
       /\ info' = [raised |-> failed, warnings |-> ConfigWarnings(config),
                   created |-> failed = ""]
       /\ belief' = IF failed = "" THEN NewBelief([i \in 1..NParticles |-> <<0, 0>>])
                    ELSE belief
  /\ lastOp' = "construct"
  /\ UNCHANGED <<credalOut, config, env>>

ConstructNext == Construct

SpecConstruct == ConstructInit /\ [][ConstructNext]_vars

\* C17 (as claimed): construction raises and creates no agent whenever the
\* configuration has particles < 100, resample_threshold outside [0.1, 0.9],
\* observation_noise <= 0, barrier_alpha <= 0, trust_init outside (0, 1),
\* query cost < 0 or delta_star <= 0; particles > 100000 and
\* slack_penalty < 1 alone do not make it raise.
Claim_C17 ==
  lastOp = "construct" =>
    LET invalid ==
          \/ config.particles < 100
          \/ config.resample_threshold < 10 \/ config.resample_threshold > 90
          \/ config.observation_noise <= 0
          \/ config.barrier_alpha <= 0
          \/ config.has_credal /\ (config.trust_init <= 0 \/ config.trust_init >= 100)
          \/ config.cost < 0
          \/ config.delta_star <= 0
    IN  /\ invalid => (info.raised # "" /\ ~info.created)
        /\ ~invalid => info.created

(***************************************************************************)
(* Random numbers (core/belief.py, policy/agent.py, cli/rollout.py): every *)
(* draw is a call of the module-level np.random, seeded once by            *)
(* np.random.seed(config.seed).  info.pos is the position of that one      *)
(* stream, info.ops[a] the number of calls agent a has made: reset first,  *)
(* then act on a fixed observation.  belief[a] is the belief of agent a.   *)
(***************************************************************************)
Agents == {"A", "B"}
Seeds == {0, 1, 2}
MaxOps == 4

\* the value at position pos of the stream seeded with seed
Rand(seed, pos) == ((seed + pos) * (seed + pos) + 3 * pos + seed) % 7

\* np.random.randn(n_particles, state_dim) * 0.5 on the grid, read from the
\* stream at position pos
DrawParticles(seed, pos) ==
  [i \in 1..NParticles |->
     <<(Rand(seed, pos + 2 * i - 2) % 3) - 1, (Rand(seed, pos + 2 * i - 1) % 3) - 1>>]

\* the observations an agent is given, by the number of its call
FixedObs == << <<0, 0>>, <<1, 0>>, <<0, 0>>, <<0, 1>>, <<0, 0>>, <<1, 0>> >>

\* the n-th call of an agent that finds the stream at position pos: reset
\* (n = 1) draws the particles; act updates the belief and, if the ESS is
\* low, resamples with the offset and the jitter drawn from the stream
AgentOp(b, n, seed, pos) ==
  IF n = 1
  THEN [belief |-> NewBelief(DrawParticles(seed, pos)), pos |-> pos + 2 * NParticles]
  ELSE LET b1 == UpdateObs(b, FixedObs[n])
       IN  IF EssNum(b1.w) * ThresholdDen < ThresholdNum * Len(b1.w) * EssDen(b1.w)
           THEN [belief |-> Resample(b1, Rand(seed, pos) % UDen, ZeroJitter),
                 pos |-> pos + 1 + 2 * NParticles]
           ELSE [belief |-> b1, pos |-> pos]

SharedInit ==
  /\ belief = [a \in Agents |-> NewBelief(<<>>)]
  /\ lastOp = "init"
  /\ credalOut = NoCredalOut
  /\ config \in [seed : Seeds]
  /\ env = NoEnv
  /\ info = [pos |-> 0, ops |-> [a \in Agents |-> 0]]

\* one call of one agent, drawing from the shared stream
AgentCall ==
  \E a \in Agents :
    /\ info.ops[a] < MaxOps
    /\ \E r \in {AgentOp(belief[a], info.ops[a] + 1, config.seed, info.pos)} :
         /\ belief' = [belief EXCEPT ![a] = r.belief]
         /\ info' = [pos |-> r.pos, ops |-> [info.ops EXCEPT ![a] = @ + 1]]
    /\ lastOp' = a
    /\ UNCHANGED <<credalOut, config, env>>

SharedNext == AgentCall

SpecShared == SharedInit /\ [][SharedNext]_vars

\* the belief of an agent that makes n calls alone under the seed
RECURSIVE Alone(_, _)
Alone(seed, n) ==
  IF n = 0 THEN [belief |-> NewBelief(<<>>), pos |-> 0]
  ELSE LET prev == Alone(seed, n - 1)
       IN  AgentOp(prev.belief, n, seed, prev.pos)

\* C18 (as claimed): for a fixed seed and fixed observations an agent's
\* belief, and with it the actions it returns, is the one it would have had
\* alone, whatever the other agent did in between.
Claim_C18 ==
  \A a \in Agents : belief[a] = Alone(config.seed, info.ops[a]).belief

(***************************************************************************)
(* SourceTrust (core/messages.py).  alpha, beta and the weights are whole  *)
(* numbers, r_s is the fraction n/d with d > 0.  info keeps the object's   *)
(* fields, the arguments of the last call (success, weight), the fields    *)
(* before it (prev) and whether it raised.                                 *)
(***************************************************************************)
MaxCount == 6

\* a / b as a fraction with positive denominator
Ratio(a, b) == IF b < 0 THEN [n |-> 0 - a, d |-> 0 - b] ELSE [n |-> a, d |-> b]

\* constructor arguments: the defaults (0.7, 7, 3), the agent's
\* SourceTrust(r_s = trust_init) and explicit priors
TrustArgs ==
  [r_s : {Ratio(7, 10), Ratio(8, 10), Ratio(1, 2)}, alpha : {1, 7}, beta : {1, 3}]

Weights == {-2, -1, 0, 1, 2}

TrustInit ==
  /\ belief = NewBelief(<<>>)
  /\ lastOp = "init"
  /\ credalOut = NoCredalOut
  /\ config \in [credal_K : ReferenceKs]
  /\ env = NoEnv
  /\ \E args \in TrustArgs :
       info = [alpha |-> args.alpha, beta |-> args.beta, r_s |-> args.r_s,
               success |-> FALSE, weight |-> 0, prev |-> args, raised |-> FALSE]

\* SourceTrust.__init__(r_s, alpha, beta) with the arguments held in info
NewSourceTrust ==
  /\ lastOp = "init"
  /\ info' = [info EXCEPT !.alpha = info.prev.alpha, !.beta = info.prev.beta,
                          !.r_s = info.prev.r_s]
  /\ lastOp' = "new"
  /\ UNCHANGED <<belief, credalOut, config, env>>

\* SourceTrust.update(success, weight); the division raises when
\* alpha + beta = 0, after alpha or beta has been changed
TrustUpdate ==
  /\ lastOp \in {"new", "update"}
  /\ \E success \in BOOLEAN, weight \in Weights :
     \E a \in {IF success THEN info.alpha + weight ELSE info.alpha} :
     \E b \in {IF success THEN info.beta ELSE info.beta + weight} :
       /\ Abs(a) <= MaxCount /\ Abs(b) <= MaxCount
       /\ info' = [alpha |-> a, beta |-> b,
                   r_s |-> IF a + b = 0 THEN info.r_s ELSE Ratio(a, a + b),
                   success |-> success, weight |-> weight,
                   prev |-> [r_s |-> info.r_s, alpha |-> info.alpha, beta |-> info.beta],
                   raised |-> a + b = 0]
  /\ lastOp' = "update"
  /\ UNCHANGED <<belief, credalOut, config, env>>

TrustNext == NewSourceTrust \/ TrustUpdate

SpecTrust == TrustInit /\ [][TrustNext]_vars

\* C19 (as claimed): in every state of a SourceTrust, after construction
\* and after any updates, r_s = alpha / (alpha + beta) and 0 < r_s < 1; an
\* update adds the weight to alpha on success, to beta otherwise, and
\* leaves the other count alone.
Claim_C19 ==
  /\ lastOp \in {"new", "update"} =>
       /\ info.r_s.n * (info.alpha + info.beta) = info.alpha * info.r_s.d
       /\ 0 < info.r_s.n /\ info.r_s.n < info.r_s.d
  /\ lastOp = "update" =>
       /\ info.alpha = info.prev.alpha + (IF info.success THEN info.weight ELSE 0)
       /\ info.beta = info.prev.beta + (IF info.success THEN 0 ELSE info.weight)

\* C20 (as claimed): update with weight <= 0 raises and leaves alpha, beta
\* and r_s as they were.
Claim_C20 ==
  (lastOp = "update" /\ info.weight <= 0) =>
    /\ info.raised
    /\ info.alpha = info.prev.alpha
    /\ info.beta = info.prev.beta
    /\ info.r_s = info.prev.r_s

(***************************************************************************)
(* CVaR (risk/cvar.py).  A level alpha is a / LevelDen; weights are        *)
(* exp(log_w - max) up to a common factor, 0 for a weight that underflows; *)
(* results are fractions n/d.  info holds the arguments and the results:   *)
(* cvar at a1 and a2, cvar_weighted at a1.                                 *)
(***************************************************************************)
LevelDen == 6

CvarValues == {-2, 0, 3}

\* weight vectors of length n: uniform, first doubled, first underflowed,
\* increasing
WeightVectors(n) ==
  {[i \in 1..n |-> 1], [i \in 1..n |-> IF i = 1 THEN 2 ELSE 1],
   [i \in 1..n |-> IF i = 1 /\ n > 1 THEN 0 ELSE 1], [i \in 1..n |-> i]}

\* np.argsort(values): an order of the indices that puts the values in
\* ascending order (the order of equal values is the sort's choice)
ArgSorts(v) ==
  {p \in [DOMAIN v -> DOMAIN v] :
     /\ \A i, j \in DOMAIN v : i # j => p[i] # p[j]
     /\ \A i, j \in DOMAIN v : i < j => v[p[i]] <= v[p[j]]}

\* np.sort(values)
Sort(v) == LET p == CHOOSE q \in ArgSorts(v) : TRUE IN [i \in DOMAIN v |-> v[p[i]]]

CvarFloor(v, a) ==
  LET n == Len(v)
      cutoff == Max(1, (a * n) \div LevelDen)
  IN  [n |-> SeqSum(SubSeq(Sort(v), 1, cutoff)), d |-> cutoff]

\* cvar(values, alpha)
Cvar(v, a) ==
  LET n == Len(v)
      cutoff == Max(1, (a * n + LevelDen - 1) \div LevelDen)
  IN  [n |-> SeqSum(SubSeq(Sort(v), 1, cutoff)), d |-> cutoff]

\* np.average(vs[:k], weights = ws[:k])
TailAverage(vs, ws, k) ==
  [n |-> SeqSum([i \in 1..k |-> ws[i] * vs[i]]), d |-> SeqSum(SubSeq(ws, 1, k))]

\* cvar_weighted(log_weights, values, alpha) with the argsort order p
CvarWeighted(w, v, a, p) ==
  LET vs == [i \in DOMAIN v |-> v[p[i]]]
      ws == [i \in DOMAIN v |-> w[p[i]]]
      found == Cardinality({i \in DOMAIN ws : CumSum(ws, i) * LevelDen <= a * SeqSum(ws)})
      cutoff == IF found = 0 THEN 1 ELSE found
  IN  IF SeqSum(SubSeq(ws, 1, cutoff)) > 0 THEN TailAverage(vs, ws, cutoff)
      ELSE [n |-> vs[1], d |-> 1]

CvarInit ==
  /\ belief = NewBelief(<<>>)
  /\ lastOp = "init"
  /\ credalOut = NoCredalOut
  /\ config \in [credal_K : ReferenceKs]
  /\ env = NoEnv
  /\ \E n \in 1..NParticles :
     \E v \in [1..n -> CvarValues], w \in WeightVectors(n), a1 \in 1..LevelDen, a2 \in 1..LevelDen :
       /\ a1 <= a2
       /\ info = [v |-> v, w |-> w, a1 |-> a1, a2 |-> a2, p |-> <<>>,
                  cvar1 |-> [n |-> 0, d |-> 1], cvar2 |-> [n |-> 0, d |-> 1],
                  weighted |-> [n |-> 0, d |-> 1]]

\* cvar(v, a1), cvar(v, a2) and cvar_weighted(log_w, v, a1)
CallCvar ==
  /\ lastOp = "init"
  /\ \E p \in ArgSorts(info.v) :
       info' = [info EXCEPT !.p = p, !.cvar1 = Cvar(info.v, info.a1),
                            !.cvar2 = Cvar(info.v, info.a2),
                            !.weighted = CvarWeighted(info.w, info.v, info.a1, p)]
  /\ lastOp' = "cvar"
  /\ UNCHANGED <<belief, credalOut, config, env>>

CvarNext == CallCvar

SpecCvar == CvarInit /\ [][CvarNext]_vars

ThroughCrossing(w, v, a, p, strict) ==
  LET vs == [i \in DOMAIN v |-> v[p[i]]]
      ws == [i \in DOMAIN v |-> w[p[i]]]
      crossed == {i \in DOMAIN ws :
                    IF strict THEN CumSum(ws, i) * LevelDen > a * SeqSum(ws)
                    ELSE CumSum(ws, i) * LevelDen >= a * SeqSum(ws)}
      j == IF crossed = {} THEN Len(ws) ELSE CHOOSE i \in crossed : \A m \in crossed : i <= m
  IN  TailAverage(vs, ws, j)

\* C22 (as claimed): cvar_weighted returns the weight-averaged mean of the
\* sorted values up to and including the first index j at which the
\* cumulative weight crosses the level; below the smallest value's weight it
\* returns the smallest value.
Claim_C22 ==
  (lastOp = "cvar" /\ \A i \in DOMAIN info.w : info.w[i] > 0) =>
    \/ RatEq(info.weighted, ThroughCrossing(info.w, info.v, info.a1, info.p, FALSE))
    \/ RatEq(info.weighted, ThroughCrossing(info.w, info.v, info.a1, info.p, TRUE))

\* C30 (as claimed): with all log-weights equal, cvar_weighted(log_w, v, a)
\* returns the same value as cvar(v, a).
Claim_C30 ==
  (lastOp = "cvar" /\ \A i \in DOMAIN info.w : info.w[i] = 1) =>
    RatEq(info.weighted, info.cvar1)

(***************************************************************************)
(* ForbiddenCircleEnv alone (envs/forbidden_circle/env.py): reset, then    *)
(* step with any action until done, as the rollout loop drives it.         *)
(***************************************************************************)
\* actions given to step, in position units per step before clipping
EnvActions == {<<3, 3>>, <<-5, -5>>, <<0, 3>>}

\* start states reset can draw, on both sides of the obstacle
EnvStarts ==
  {x \in {<<72, 72>>, <<-72, -72>>} :
     /\ ResetRadiusMin * ResetRadiusMin <= Dot(x, x)
     /\ Dot(x, x) <= ResetRadiusMax * ResetRadiusMax
     /\ ~IsInObstacle(x)}

StepResultStopping(e, a, noise) ==
  LET x == <<e.state[1] + ClipStep(a[1], 1), e.state[2] + ClipStep(a[2], 1)>>
      t == e.timestep + 1
  IN  [state |-> x, timestep |-> t, obs |-> Observation(x, noise),
       done |-> IsAtGoal(x) \/ IsInObstacle(x) \/ t >= MaxTimesteps,
       goal_reached |-> IsAtGoal(x),
       violated_safety |-> IsInObstacle(x)]

\* ForbiddenCircleEnv.step(action): the environment after the step
StepResult(e, a, noise) ==
  LET x == <<e.state[1] + ClipStep(a[1], 1), e.state[2] + ClipStep(a[2], 1)>>
      t == e.timestep + 1
  IN  [state |-> x, timestep |-> t, obs |-> Observation(x, noise),
       done |-> IsAtGoal(x) \/ t >= MaxTimesteps,
       goal_reached |-> IsAtGoal(x),
       violated_safety |-> IsInObstacle(x)]

\* ForbiddenCircleEnv.reset
EnvResetAny ==
  /\ lastOp = "init" \/ (lastOp = "step" /\ env.done)
  /\ \E x \in EnvStarts, noise \in NoiseSet :
       env' = [state |-> x, timestep |-> 0, obs |-> Observation(x, noise),
               done |-> FALSE, goal_reached |-> FALSE, violated_safety |-> FALSE]
  /\ lastOp' = "env_reset"
  /\ UNCHANGED <<belief, credalOut, config, info>>

\* one pass of the rollout loop `while not done`: step with some action
EnvStepAny ==
  /\ lastOp \in {"env_reset", "step"}
  /\ ~env.done
  /\ \E a \in EnvActions, noise \in NoiseSet : env' = StepResult(env, a, noise)
  /\ lastOp' = "step"
  /\ UNCHANGED <<belief, credalOut, config, info>>

EnvNext == EnvResetAny \/ EnvStepAny

SpecEnv == LoopInit /\ [][EnvNext]_vars

\* C26 (as claimed): step returns done = true when the goal is reached, when
\* the state enters the forbidden region, or when the timestep counter
\* reaches max_timesteps.
Claim_C26 ==
  lastOp = "step" =>
    (env.done <=> (env.goal_reached \/ env.violated_safety
                     \/ env.timestep >= MaxTimesteps))

\* C26 (amended): step returns done = true exactly when the goal is reached
\* or the timestep counter reaches max_timesteps; entering the forbidden
\* region sets violated_safety and does not end the episode; every episode
\* ends after at most max_timesteps steps.
Thm_C26 ==
  /\ lastOp = "step" =>
       /\ env.done <=> (env.goal_reached \/ env.timestep >= MaxTimesteps)
       /\ env.goal_reached <=> IsAtGoal(env.state)
       /\ env.violated_safety <=> IsInObstacle(env.state)
  /\ env.timestep <= MaxTimesteps

\* an episode that goes on after a step inside the forbidden region
Witness_C26 ==
  /\ lastOp = "step"
  /\ env.violated_safety /\ ~env.done
  /\ env.timestep < MaxTimesteps

\* C29 (as claimed): for a SourceTrust built with r_s in (0, 1), an update
\* with success = true and weight > 0 never decreases r_s and one with
\* success = false and weight > 0 never increases it, the first update after
\* construction included.
Claim_C29 ==
  (lastOp = "update" /\ info.weight > 0) =>
    /\ info.success => RatLeq(info.prev.r_s, info.r_s)
    /\ ~info.success => RatLeq(info.r_s, info.prev.r_s)

\* C23: in every act call the observation update and its resample check
\* come first, then (query enabled and env given) the EVI on that belief
\* and, if it fires, the query update with its own resample check; the
\* policy and the filter see the belief after all updates, the filter the
\* belief mean recomputed after the query update; the timestep counter
\* advances by exactly one per completed call.
Thm_C23 ==
  [][lastOp' = "act" =>
       /\ info'.timestep = info.timestep + 1
       /\ \E b2 \in ResampleIfNeeded(UpdateObs(belief, info'.observation.vals)) :
            /\ info'.entropy_before_query.none \/ info'.entropy_before_query = Entropy(b2)
            /\ IF info'.query_triggered
               THEN /\ 4 * LogSpread(b2, info'.query_obs) <= MaxSpread
                    /\ belief' \in ResampleIfNeeded(QueryUpdate(b2, info'.query_obs))
               ELSE belief' = b2
       /\ info'.belief_mean = BeliefMean(belief')
       /\ info'.u_desired = SelectAction(info'.belief_mean)
       /\ info'.u_safe =
            Filter(info'.belief_mean, info'.u_desired, Radius * Radius, SlackPenalty,
                   "optimal", info'.u_desired).u_safe]_vars

\* a second act call whose query fired and whose control the filter changed
Witness_C23 ==
  /\ lastOp = "act"
  /\ info.timestep = 2
  /\ info.query_triggered
  /\ info.u_safe.n # <<info.u_desired[1] * info.u_safe.d, info.u_desired[2] * info.u_safe.d>>

(***************************************************************************)
(* The agent between resets: act, update_belief_with_message and reset     *)
(* (policy/agent.py).  lastOp is "act", "act_raised", "reset" or the       *)
(* Belnap value of the message applied.                                    *)
(***************************************************************************)
\* Agent.update_belief_with_message(message, source_trust), not twice in a
\* row, before the first act of an episode or after its last
UpdateBeliefWithMessage ==
  /\ lastOp \in {"init", "reset", "act"}
  /\ info.timestep \in {0, MaxActs}
  /\ \E v \in BelnapValues, lam \in BothLogits :
     \E b1 \in {ApplyMessage(belief, v, "x_gt_0", lam)} :
       /\ SeqMax(b1.w) <= 2 * MaxWeight
       /\ belief' \in ResampleIfNeeded(b1)
       /\ lastOp' = v
  /\ info' = [NoAct EXCEPT !.timestep = info.timestep]
  /\ UNCHANGED <<credalOut, config, env>>

\* Agent.reset
ResetAgent ==
  /\ lastOp \notin {"init", "reset"}
  /\ belief' = NewBelief(SubSeq(ActDraw, 1, NParticles))
  /\ info' = NoAct
  /\ lastOp' = "reset"
  /\ UNCHANGED <<credalOut, config, env>>

\* an agent with the query enabled, after its first reset
AgentInit ==
  /\ belief = NewBelief(SubSeq(ActDraw, 1, NParticles))
  /\ lastOp = "init"
  /\ credalOut = NoCredalOut
  /\ config = [enabled |-> TRUE, delta_star |-> 3]
  /\ env = NoEnv
  /\ info = NoAct

AgentNext == ActEnv \/ UpdateBeliefWithMessage \/ ResetAgent

SpecAgent == AgentInit /\ [][AgentNext]_vars

\* C28: after reset and after every completed act or
\* update_belief_with_message call the belief has ESS >= resample_threshold
\* * N, and the particle count is the one at reset.
Thm_C28 ==
  lastOp \in {"reset", "act"} \cup BelnapValues =>
    /\ EssNum(belief.w) * ThresholdDen >= ThresholdNum * Len(belief.w) * EssDen(belief.w)
    /\ Len(belief.particles) = NParticles /\ Len(belief.w) = NParticles

\* a call that ended with a resample: uniform weights on particles that are
\* no longer the ones drawn at reset
Witness_C28 ==
  /\ lastOp = "act"
  /\ \A i \in DOMAIN belief.w : belief.w[i] = 1
  /\ belief.particles # SubSeq(ActDraw, 1, NParticles)


\* the posterior means of the credal set attached to b
PosteriorMeans(b) == {BeliefMean(b.credal[k]) : k \in DOMAIN b.credal}

\* e is the estimate the claim names for belief b: with a credal set, in each
\* dimension the least of the posteriors' means; without, the belief mean
IsNamedEstimate(e, b) ==
  IF b.hasCredal
  THEN \A dim \in 1..2 :
         /\ \E m \in PosteriorMeans(b) : e[dim] = m[dim]
         /\ \A m \in PosteriorMeans(b) : e[dim] <= m[dim]
  ELSE e = BeliefMean(b)

\* u is gain * dir / ||dir|| to the nearest unit: parallel to dir, pointing
\* the same way, of norm gain within the rounding of its two components
IsGainTowards(u, dir) ==
  /\ Dot(u, dir) > 0
  /\ 2 * Abs(u[1] * dir[2] - u[2] * dir[1]) <= Abs(dir[1]) + Abs(dir[2])
  /\ (Gain - 1) * (Gain - 1) <= Dot(u, u)
  /\ Dot(u, u) <= (Gain + 1) * (Gain + 1)

Thm_C27 ==
  [][/\ (belief.hasCredal /\ lastOp' \in {"act", "act_raised", "TRUE", "FALSE", "NEITHER"}) =>
          /\ belief'.hasCredal
          /\ belief'.credal = belief.credal
          /\ lastOp' = "act" =>
               info'.u_desired =
                 SelectAction(<<SeqMin([k \in DOMAIN belief.credal |-> BeliefMean(belief.credal[k])[1]]),
                                SeqMin([k \in DOMAIN belief.credal |-> BeliefMean(belief.credal[k])[2]])>>)
     /\ lastOp' = "reset" => ~belief'.hasCredal /\ belief'.credal = <<>>
     /\ (~belief.hasCredal /\ belief'.hasCredal) => lastOp' = "BOTH"
    ]_vars

\* after the last act of an episode that began with a BOTH message: the
\* belief has been resampled since, its posteriors still hold the particles
\* of the reset
Witness_C27 ==
  /\ lastOp = "act"
  /\ info.timestep = MaxActs
  /\ belief.hasCredal
  /\ belief.particles # SubSeq(ActDraw, 1, NParticles)
  /\ \A k \in DOMAIN belief.credal : belief.credal[k].particles = SubSeq(ActDraw, 1, NParticles)
  /\ BeliefMean(belief) # StateEstimate(belief)


(***************************************************************************)
(* Belief.resample on its own (core/belief.py): the weights it computes,   *)
(* exp(log_weights - max), are fractions w[i] / MaxWeight with the largest *)
(* equal to 1 and the smallest possibly underflowed to 0; the offset       *)
(* np.random.uniform() is k / UDen in [0, 1).                              *)
(***************************************************************************)
ResampleWeights ==
  {w \in [1..NParticles -> 0..MaxWeight] : \E i \in 1..NParticles : w[i] = MaxWeight}

\* indices = np.searchsorted(cumsum, positions), counted from 1
ResampleIndices(w, k) == [j \in 1..Len(w) |-> SearchSorted(w, j - 1, k)]

ResampleInit ==
  /\ \E w \in ResampleWeights :
       belief = [NewBelief(SubSeq(ActDraw, 1, NParticles)) EXCEPT !.w = w, !.D = SeqSum(w)]
  /\ lastOp = "init"
  /\ credalOut = NoCredalOut
  /\ config = [enabled |-> FALSE, delta_star |-> 0]
  /\ env = NoEnv
  /\ info = [weights |-> <<>>, k |-> 0, indices |-> <<>>]

\* Belief.resample, the jitter left out
CallResample ==
  /\ lastOp = "init"
  /\ \E k \in 0..(UDen - 1) :
       /\ belief' = Resample(belief, k, ZeroJitter)
       /\ info' = [weights |-> belief.w, k |-> k, indices |-> ResampleIndices(belief.w, k)]
  /\ lastOp' = "resample"
  /\ UNCHANGED <<credalOut, config, env>>

SpecResample == ResampleInit /\ [][CallResample]_vars

\* the number of copies of old particle i among the selected indices
Copies(idx, i) == Cardinality({j \in DOMAIN idx : idx[j] = i})

\* C25: resample keeps the particle count and makes the weights uniform; the
\* selected indices are within range and non-decreasing, the new particles
\* are the old ones at those indices, a particle of normalized weight w is
\* copied floor(N * w) or ceil(N * w) times, and a particle of zero weight
\* is never copied.
Claim_C25 ==
  lastOp = "resample" =>
    LET w == info.weights
        idx == info.indices
        N == Len(w)
        S == SeqSum(w)
        old == SubSeq(ActDraw, 1, NParticles)
    IN  /\ Len(belief.particles) = N /\ Len(belief.w) = N
        /\ \A j \in 1..N : belief.w[j] * N = belief.D
        /\ \A j \in 1..N : idx[j] \in 1..N /\ belief.particles[j] = old[idx[j]]
        /\ \A j \in 1..(N - 1) : idx[j] <= idx[j + 1]
        /\ \A i \in 1..N :
             /\ (N * w[i]) \div S <= Copies(idx, i)
             /\ Copies(idx, i) <= (N * w[i] + S - 1) \div S
             /\ w[i] = 0 => Copies(idx, i) = 0

====
